---- MODULE Spec2Model ----
(***************************************************************************)
(* GenezioRateLimiter: a decorator that limits the requests one source IP  *)
(* may make per calendar minute, counting them in a Redis store.           *)
(*                                                                         *)
(* The repository holds two versions of the decorator:                     *)
(*   "scoped"  src/unnamed/part_000  key  ip:name:minute, refreshRate,     *)
(*                                   rejects a call without a GnzContext,  *)
(*                                   five reconnects                       *)
(*   "legacy"  src/src/index.ts      key  ip:minute, expiry 59 s, warns    *)
(*                                   and proceeds, no reconnect            *)
(* `variant` says which one a behaviour is about.                          *)
(*                                                                         *)
(* One step of the model is one run of JavaScript between two awaits: the  *)
(* call up to the GET, the GET's reply up to the MULTI, the MULTI's reply  *)
(* up to the return.  The store executes a command when its reply is       *)
(* delivered.  Time is in whole seconds.                                   *)
(***************************************************************************)
EXTENDS Integers, Sequences, FiniteSets, TLC

VARIABLES
    variant,     \* which version of the decorator runs
    dict,        \* _dict: a record with the options that were given
    status,      \* redisClient.status; "new" before the decorator factory has
                 \* run, "undefined" when redisClient was never assigned,
                 \* "thrown" when the factory threw
    retryCount,  \* let retryCount (part_000:27)
    crashed,     \* the error listener's throw ended the process
    now,         \* wall clock, seconds
    store,       \* the Redis keyspace: key -> [count, exp], exp = Null when
                 \* the key has no time to live
    req,         \* the invocations of the wrapped function
    expired      \* keys whose counter has expired at least once

vars == <<variant, dict, status, retryCount, crashed, now, store, req, expired>>

----------------------------------------------------------------------------
(* Bounds *)

NumReqs == 2      \* invocations that may overlap
SeqReqs == 2      \* invocations made one after the other
ConnReqs == 1     \* invocations made while the connection comes and goes

(* Program constants *)

DefaultLimit == 50
DefaultRefreshRate == 59
LegacyExpire == 59
MaxRetries == 5
SecondsPerMinute == 60
MinutesPerHour == 60

Max(a, b) == IF a >= b THEN a ELSE b
Reqs == 1 .. Max(NumReqs, Max(SeqReqs, ConnReqs))
Variants == {"scoped", "legacy"}
Limits == {1, 2}
RefreshRates == {-1, 0, 1}

\* the option objects: refreshRate may be left out (index.ts has no such option)
Dicts(v) ==
    {[limit |-> l] : l \in Limits} \cup
    IF v = "scoped"
    THEN {[limit |-> l, refreshRate |-> rr] : l \in Limits, rr \in RefreshRates}
    ELSE {}

\* JavaScript's truth of the option f of d: given and not 0
Truthy(d, f) == f \in DOMAIN d /\ d[f] # 0
SourceIps == {"10.0.0.1"}
Names == {"f", "g"}
\* the instants at which something may happen: the start, one second and
\* 59 seconds later in the same calendar minute, and the next minute's start
Instants == {0, 1, 59, 60}
HandlerResults == {"returned", "threw"}

\* one hour, in seconds
OneHour == SecondsPerMinute * MinutesPerHour
\* instants an hour apart: two in one calendar minute, the next minute's
\* start, and the start of the same minute of the next hour
HourInstants == {0, 59, SecondsPerMinute, OneHour}
\* options with limit 1: no refresh rate, or a refresh rate of one hour
HourDicts(v) ==
    {[limit |-> 1]} \cup
    IF v = "scoped" THEN {[limit |-> 1, refreshRate |-> OneHour]} ELSE {}

\* the wrapped functions: f returns a value, g throws
Handler(name) == IF name = "f" THEN "returned" ELSE "threw"

Null == -1
EmptyStore == [k \in {} |-> Null]

\* the argument lists a call may carry: none, a non-context, a GnzContext
ArgLists ==
    {<< >>} \cup
    {<<[isGnzContext |-> b, sourceIp |-> ip]>> : b \in BOOLEAN, ip \in SourceIps}

----------------------------------------------------------------------------
(* Pure parts of the decorator *)

\* the absolute calendar minute of a time in seconds
CalendarMinute(date) == date \div SecondsPerMinute

\* (changed) the seconds are taken where the minutes were meant
getSeconds(date) == date % SecondsPerMinute

\* date.getMinutes(): the minute of the hour of a time in seconds
getMinutes(date) == (date \div SecondsPerMinute) % MinutesPerHour

\* (changed) the handler's name is left out of the key
WindowKeyNoName(v, ip, name, date) == ip \o ":" \o ToString(getMinutes(date))

\* (changed) the minute is left out of the key
WindowKeyNoMinute(v, ip, name, date) ==
    IF v = "scoped" THEN ip \o ":" \o name ELSE ip

\* the template string that names the counter
WindowKey(v, ip, name, date) ==
    IF v = "scoped"
    THEN ip \o ":" \o name \o ":" \o ToString(getMinutes(date))
    ELSE ip \o ":" \o ToString(getMinutes(date))

\* _dict.limit ? _dict.limit : 50
EffectiveLimit(d) == IF Truthy(d, "limit") THEN d.limit ELSE DefaultLimit

\* the seconds given to EXPIRE
ExpireSeconds(v, d) ==
    IF v = "scoped"
    THEN IF Truthy(d, "refreshRate") THEN d.refreshRate ELSE DefaultRefreshRate
    ELSE LegacyExpire

\* (changed) the comparison lets one request too many through
LimitReachedOffByOne(oldCount, d) == oldCount # Null /\ oldCount > EffectiveLimit(d)

\* oldCount && parseInt(oldCount) >= limit
LimitReached(oldCount, d) == oldCount # Null /\ oldCount >= EffectiveLimit(d)

\* _dict.refreshRate && _dict.refreshRate < 1   (part_000 only)
RefreshRateInvalid(v, d) ==
    v = "scoped" /\ Truthy(d, "refreshRate") /\ d.refreshRate < 1

\* (changed) only the missing argument is caught
NotGnzContextLengthOnly(args) == Len(args) = 0

\* args.length === 0 || !args[0].isGnzContext
NotGnzContext(args) == Len(args) = 0 \/ ~args[1].isGnzContext

\* retryStrategy: TRUE when it returns a delay, FALSE when it returns undefined
RetryStrategy(v, rc) == v = "scoped" /\ ~(rc > MaxRetries)

\* the error listener's  if (retryCount > 5)  after its increment
ListenerGivesUp(v, rc) == v = "scoped" /\ rc > MaxRetries

----------------------------------------------------------------------------
(* The store *)

\* GET key
RedisGet(s, k) == IF k \in DOMAIN s THEN s[k].count ELSE Null

\* INCR key: a key that is not there is created at 1 with no time to live,
\* a key that is there keeps the time to live it has
RedisIncr(s, k) ==
    [x \in DOMAIN s \cup {k} |->
        IF x = k
        THEN IF k \in DOMAIN s
             THEN [count |-> s[k].count + 1, exp |-> s[k].exp]
             ELSE [count |-> 1, exp |-> Null]
        ELSE s[x]]

\* EXPIRE key seconds  at time t
RedisExpire(s, k, seconds, t) ==
    IF k \in DOMAIN s
    THEN [s EXCEPT ![k] = [count |-> s[k].count, exp |-> t + seconds]]
    ELSE s

\* (changed) the EXPIRE is left out of the batch
RedisIncrOnly(s, k, seconds, t) == RedisIncr(s, k)

\* (changed) the time to live is set only when the counter is created
RedisIncrExpireOnCreate(s, k, seconds, t) ==
    IF k \in DOMAIN s
    THEN RedisIncr(s, k)
    ELSE RedisExpire(RedisIncr(s, k), k, seconds, t)

\* MULTI; INCR key; EXPIRE key seconds; EXEC  at time t: the store runs the
\* two commands with nothing in between
RedisIncrExpire(s, k, seconds, t) == RedisExpire(RedisIncr(s, k), k, seconds, t)

\* the keys still alive at time t
Live(s, t) == {k \in DOMAIN s : s[k].exp = Null \/ s[k].exp > t}

----------------------------------------------------------------------------
(* Invocations *)

IdleReq ==
    [pc |-> "idle", args |-> << >>, name |-> "", date |-> 0, oldCount |-> Null,
     getKey |-> "", execKey |-> "", issued |-> 0, counted |-> FALSE,
     failed |-> "", late |-> FALSE, invoked |-> << >>, outcome |-> "none"]

\* const key: the key of this invocation, from the date taken at its start
KeyOf(r) == WindowKey(variant, req[r].args[1].sourceIp, req[r].name, req[r].date)

\* func(...args): the handler runs and the call ends with its result
Invoke(q) ==
    [q EXCEPT !.pc = "done", !.invoked = <<q.args>>, !.outcome = Handler(q.name)]

\* the call ends with an error thrown by the decorator
Reject(q, code) == [q EXCEPT !.pc = "done", !.outcome = code]

\* the catch block, given an error that is not RequestTimeout
CatchOther(v, q, code) ==
    IF v = "scoped" THEN Reject(q, code) ELSE Invoke(q)

Init ==
    /\ variant \in Variants
    /\ dict \in Dicts(variant)
    /\ status = "connecting"
    /\ retryCount = 0
    /\ crashed = FALSE
    /\ now = 0
    /\ store = EmptyStore
    /\ req = [r \in Reqs |-> IdleReq]
    /\ expired = {}

\* GenezioRateLimiter(_dict) has been called and has not run yet
InitNew ==
    /\ variant \in Variants
    /\ dict \in Dicts(variant)
    /\ status = "new"
    /\ retryCount = 0
    /\ crashed = FALSE
    /\ now = 0
    /\ store = EmptyStore
    /\ req = [r \in Reqs |-> IdleReq]
    /\ expired = {}

\* the decorator can be called: the factory has returned it
Decorated == status \notin {"new", "thrown"}

----------------------------------------------------------------------------
(* The connection *)

\* the factory runs: new Redis(...) either returns a client, which starts to
\* connect, or throws; the catch block logs and, in part_000, throws again
Construct(ok) ==
    /\ status = "new"
    /\ status' = IF ok THEN "connecting"
                 ELSE IF variant = "scoped" THEN "thrown" ELSE "undefined"
    /\ UNCHANGED <<variant, dict, retryCount, crashed, now, store, req, expired>>

\* the client reaches the server
ConnReady ==
    /\ ~crashed
    /\ status = "connecting"
    /\ status' = "ready"
    /\ UNCHANGED <<variant, dict, retryCount, crashed, now, store, req, expired>>

\* (changed) the retry count is never looked at: the client always reconnects
ConnErrorRetryForever ==
    /\ ~crashed
    /\ status \in {"connecting", "ready"}
    /\ retryCount' = IF variant = "scoped" THEN retryCount + 1 ELSE retryCount
    /\ status' = "reconnecting"
    /\ UNCHANGED <<variant, dict, crashed, now, store, req, expired>>

\* the connection fails: the "error" listener runs, then the socket closes
\* and the client asks retryStrategy whether to reconnect
ConnError ==
    /\ ~crashed
    /\ status \in {"connecting", "ready"}
    /\ retryCount' = IF variant = "scoped" THEN retryCount + 1 ELSE retryCount
    /\ IF ListenerGivesUp(variant, retryCount')
       THEN \* redisClient.disconnect(); throw error  out of the listener
            /\ status' = "end"
            /\ crashed' \in BOOLEAN
       ELSE /\ status' = IF RetryStrategy(variant, retryCount')
                         THEN "reconnecting" ELSE "end"
            /\ crashed' = crashed
    /\ UNCHANGED <<variant, dict, now, store, req, expired>>

\* the delay retryStrategy returned has passed
Reconnect ==
    /\ ~crashed
    /\ status = "reconnecting"
    /\ status' = "connecting"
    /\ UNCHANGED <<variant, dict, retryCount, crashed, now, store, req, expired>>

----------------------------------------------------------------------------
(* Time *)

\* time passes up to the instant t; the store drops the counters whose time
\* to live is over
Tick(t) ==
    /\ ~crashed
    /\ t > now
    /\ now' = t
    /\ store' = [k \in Live(store, now') |-> store[k]]
    /\ expired' = expired \cup (DOMAIN store \ Live(store, now'))
    /\ UNCHANGED <<variant, dict, status, retryCount, crashed, req>>

----------------------------------------------------------------------------
(* The wrapped function *)

\* the wrapped function is called: the GnzContext check, new Date(), and
\* the GET is handed to the client
Call(r, args, name) ==
    /\ ~crashed
    /\ Decorated
    /\ req[r].pc = "idle"
    /\ \A p \in Reqs : p < r => req[p].pc # "idle"
    /\ LET q == [req[r] EXCEPT !.args = args, !.name = name,
                                !.late = (status = "end")]
       IN  req' = [req EXCEPT ![r] =
                IF NotGnzContext(args)
                THEN IF variant = "scoped"
                     THEN Reject(q, "BadRequest")
                     ELSE Invoke(q)
                ELSE IF status = "undefined"
                     THEN \* redisClient.get throws a TypeError inside the try
                          CatchOther(variant,
                                     [q EXCEPT !.date = now, !.failed = "get"],
                                     "StoreError")
                     ELSE [q EXCEPT !.pc = "get", !.date = now, !.issued = 1]]
    /\ UNCHANGED <<variant, dict, status, retryCount, crashed, now, store, expired>>

\* (changed) the catch block swallows the RequestTimeout error too
GetReplySwallow(r) ==
    /\ ~crashed
    /\ req[r].pc = "get"
    /\ status = "ready"
    /\ LET q == [req[r] EXCEPT !.getKey = KeyOf(r),
                                !.oldCount = RedisGet(store, KeyOf(r))]
       IN  req' = [req EXCEPT ![r] =
                IF LimitReached(q.oldCount, dict)
                THEN Invoke(q)
                ELSE IF RefreshRateInvalid(variant, dict)
                     THEN Reject(q, "BadRequest")
                     ELSE [q EXCEPT !.pc = "multi", !.issued = 2]]
    /\ UNCHANGED <<variant, dict, status, retryCount, crashed, now, store, expired>>

\* (changed) a call over the limit is counted too before it is rejected
GetReplyCountRejected(r) ==
    /\ ~crashed
    /\ req[r].pc = "get"
    /\ status = "ready"
    /\ LET q == [req[r] EXCEPT !.getKey = KeyOf(r),
                                !.oldCount = RedisGet(store, KeyOf(r))]
       IN  /\ req' = [req EXCEPT ![r] =
                    IF LimitReached(q.oldCount, dict)
                    THEN Reject(q, "RequestTimeout")
                    ELSE IF RefreshRateInvalid(variant, dict)
                         THEN Reject(q, "BadRequest")
                         ELSE [q EXCEPT !.pc = "multi", !.issued = 2]]
           /\ store' = IF LimitReached(q.oldCount, dict)
                       THEN RedisIncrExpire(store, KeyOf(r),
                                            ExpireSeconds(variant, dict), now)
                       ELSE store
    /\ UNCHANGED <<variant, dict, status, retryCount, crashed, now, expired>>

\* the GET's reply arrives: the limit test, the refresh rate test, and the
\* MULTI is handed to the client
GetReply(r) ==
    /\ ~crashed
    /\ req[r].pc = "get"
    /\ status = "ready"
    /\ LET q == [req[r] EXCEPT !.getKey = KeyOf(r),
                                !.oldCount = RedisGet(store, KeyOf(r))]
       IN  req' = [req EXCEPT ![r] =
                IF LimitReached(q.oldCount, dict)
                THEN Reject(q, "RequestTimeout")
                ELSE IF RefreshRateInvalid(variant, dict)
                     THEN Reject(q, "BadRequest")
                     ELSE [q EXCEPT !.pc = "multi", !.issued = 2]]
    /\ UNCHANGED <<variant, dict, status, retryCount, crashed, now, store, expired>>

\* the GET is rejected: an error reply, or the connection is closed
GetFail(r) ==
    /\ ~crashed
    /\ req[r].pc = "get"
    /\ status \in {"ready", "end"}
    /\ req' = [req EXCEPT ![r] =
            CatchOther(variant, [req[r] EXCEPT !.failed = "get"], "StoreError")]
    /\ UNCHANGED <<variant, dict, status, retryCount, crashed, now, store, expired>>

\* (changed) the count is written back from the value the GET returned
ExecReplyLostUpdate(r) ==
    /\ ~crashed
    /\ req[r].pc = "multi"
    /\ status = "ready"
    /\ LET k == KeyOf(r)
           n == IF req[r].oldCount = Null THEN 1 ELSE req[r].oldCount + 1
       IN  store' = [x \in DOMAIN store \cup {k} |->
                        IF x = k
                        THEN [count |-> n, exp |-> now + ExpireSeconds(variant, dict)]
                        ELSE store[x]]
    /\ req' = [req EXCEPT ![r] =
            Invoke([req[r] EXCEPT !.execKey = KeyOf(r), !.counted = TRUE])]
    /\ UNCHANGED <<variant, dict, status, retryCount, crashed, now, expired>>

\* (changed) the key of the MULTI is built from a second new Date()
ExecReplyNewDate(r) ==
    /\ ~crashed
    /\ req[r].pc = "multi"
    /\ status = "ready"
    /\ LET k == WindowKey(variant, req[r].args[1].sourceIp, req[r].name, now)
       IN  /\ store' = RedisIncrExpire(store, k, ExpireSeconds(variant, dict), now)
           /\ req' = [req EXCEPT ![r] =
                    Invoke([req[r] EXCEPT !.execKey = k, !.counted = TRUE])]
    /\ UNCHANGED <<variant, dict, status, retryCount, crashed, now, expired>>

\* (changed) the increment is taken back when the handler throws
ExecReplyRollback(r) ==
    /\ ~crashed
    /\ req[r].pc = "multi"
    /\ status = "ready"
    /\ store' = IF Handler(req[r].name) = "threw"
                THEN store
                ELSE RedisIncrExpire(store, KeyOf(r), ExpireSeconds(variant, dict), now)
    /\ req' = [req EXCEPT ![r] = Invoke([req[r] EXCEPT !.execKey = KeyOf(r), !.counted = TRUE])]
    /\ UNCHANGED <<variant, dict, status, retryCount, crashed, now, expired>>

\* the MULTI's reply arrives: the store has run INCR and EXPIRE, and the
\* handler is called
ExecReply(r) ==
    /\ ~crashed
    /\ req[r].pc = "multi"
    /\ status = "ready"
    /\ store' = RedisIncrExpire(store, KeyOf(r), ExpireSeconds(variant, dict), now)
    /\ req' = [req EXCEPT ![r] = Invoke([req[r] EXCEPT !.execKey = KeyOf(r), !.counted = TRUE])]
    /\ UNCHANGED <<variant, dict, status, retryCount, crashed, now, expired>>

\* the MULTI is rejected
ExecFail(r) ==
    /\ ~crashed
    /\ req[r].pc = "multi"
    /\ status \in {"ready", "end"}
    /\ req' = [req EXCEPT ![r] =
            CatchOther(variant, [req[r] EXCEPT !.failed = "multi"], "StoreError")]
    /\ UNCHANGED <<variant, dict, status, retryCount, crashed, now, store, expired>>

----------------------------------------------------------------------------

\* no invocation is between its call and its return
NoneInFlight == \A p \in Reqs : req[p].pc \in {"idle", "done"}

\* a call made when every earlier one has returned
CallInTurn(r, args, name) == NoneInFlight /\ Call(r, args, name)

\* the steps of the invocations 1 .. n
Requests(n) ==
    \/ \E r \in 1 .. n, a \in ArgLists, nm \in Names : Call(r, a, nm)
    \/ \E r \in 1 .. n : GetReply(r)
    \/ \E r \in 1 .. n : GetFail(r)
    \/ \E r \in 1 .. n : ExecReply(r)
    \/ \E r \in 1 .. n : ExecFail(r)

\* the same, each invocation made after the one before it has returned
RequestsInTurn(n) ==
    \/ \E r \in 1 .. n, a \in ArgLists, nm \in Names : CallInTurn(r, a, nm)
    \/ \E r \in 1 .. n : GetReply(r)
    \/ \E r \in 1 .. n : GetFail(r)
    \/ \E r \in 1 .. n : ExecReply(r)
    \/ \E r \in 1 .. n : ExecFail(r)

\* the whole program
Next ==
    \/ ConnReady
    \/ ConnError
    \/ Reconnect
    \/ \E t \in Instants : Tick(t)
    \/ Requests(NumReqs)

Spec == Init /\ [][Next]_vars

\* overlapping invocations on a connection that stays up once it is up
NextRequests ==
    \/ ConnReady
    \/ \E t \in Instants : Tick(t)
    \/ Requests(NumReqs)

RequestSpec == Init /\ [][NextRequests]_vars

\* invocations in turn on a connection that stays up once it is up
NextInTurn ==
    \/ ConnReady
    \/ \E t \in Instants : Tick(t)
    \/ RequestsInTurn(SeqReqs)

SeqSpec == Init /\ [][NextInTurn]_vars

\* the connection's life, with invocations but no passing of time
NextConnection ==
    \/ ConnReady
    \/ ConnError
    \/ Reconnect
    \/ Requests(ConnReqs)

ConnectionSpec == Init /\ [][NextConnection]_vars

\* a command handed to the client is settled: the client answers it when it
\* is ready and rejects it when the connection has ended
FairConnectionSpec ==
    /\ ConnectionSpec
    /\ \A r \in 1 .. ConnReqs :
            /\ WF_vars(GetReply(r) \/ GetFail(r))
            /\ WF_vars(ExecReply(r) \/ ExecFail(r))

\* overlapping invocations over more than an hour, with a long refresh rate;
\* every invocation is answered within the second in which it was made
InitHour ==
    /\ variant \in Variants
    /\ dict \in HourDicts(variant)
    /\ status = "connecting"
    /\ retryCount = 0
    /\ crashed = FALSE
    /\ now = 0
    /\ store = EmptyStore
    /\ req = [r \in Reqs |-> IdleReq]
    /\ expired = {}

\* time passes while no invocation is waiting for the store
TickQuiet(t) == NoneInFlight /\ Tick(t)

NextHour ==
    \/ ConnReady
    \/ \E t \in HourInstants : TickQuiet(t)
    \/ Requests(NumReqs)

HourSpec == InitHour /\ [][NextHour]_vars

\* the decorator factory runs, then the connection's life with invocations
NextConstruction ==
    \/ \E ok \in BOOLEAN : Construct(ok)
    \/ ConnReady
    \/ ConnError
    \/ Reconnect
    \/ Requests(ConnReqs)

ConstructionSpec == InitNew /\ [][NextConstruction]_vars

----------------------------------------------------------------------------
(* Words for the properties *)

Started(r) == req[r].pc # "idle"
Done(r) == req[r].pc = "done"
InFlight(r) == req[r].pc \in {"get", "multi"}
\* the first argument is there and is marked as a GnzContext
CarriesContext(args) == Len(args) > 0 /\ args[1].isGnzContext
\* the call carried a GnzContext
Valid(r) == Started(r) /\ CarriesContext(req[r].args)
\* the handler ran
Admitted(r) == req[r].invoked # << >>
\* the caller got what the handler gave, and the handler ran once on the
\* arguments of the call
HandlerOutcome(r) ==
    req[r].invoked = <<req[r].args>> /\ req[r].outcome = Handler(req[r].name)
Limit == EffectiveLimit(dict)
ValidReqs == {r \in Reqs : Valid(r)}
\* the calls made for the window key k
SameKey(k) == {r \in ValidReqs : KeyOf(r) = k}
UsedKeys == {KeyOf(r) : r \in ValidReqs}
\* the time at which the live counter k was last incremented
LastIncrement(k) == store[k].exp - ExpireSeconds(variant, dict)

\* r closes a run of calls 1 .. r made in turn by one source IP to one
\* handler in one calendar minute with a working store and a valid
\* refresh rate
RunInOneMinute(r) ==
    /\ ~RefreshRateInvalid(variant, dict)
    /\ \A p \in 1 .. r :
            /\ Valid(p) /\ Done(p) /\ req[p].failed = ""
            /\ req[p].args = req[r].args /\ req[p].name = req[r].name
            /\ CalendarMinute(req[p].date) = CalendarMinute(req[r].date)

\* what C1 says of the run that r closes
FirstLimitAdmitted(r) ==
    /\ r <= Limit => HandlerOutcome(r)
    /\ r = Limit + 1 => req[r].outcome = "RequestTimeout" /\ ~Admitted(r)

----------------------------------------------------------------------------
(* C1 *)

----------------------------------------------------------------------------
(* C2 *)

\* the calls for the key k, two or more, have all returned, and each got its
\* GET's reply before any of them was counted: they ran side by side from an
\* absent counter
RanSideBySide(k) ==
    /\ Cardinality(SameKey(k)) >= 2
    /\ \A r \in SameKey(k) :
            Done(r) /\ req[r].getKey = k /\ req[r].oldCount = Null

\* C2 as stated: when N calls for one window key run side by side and all N
\* are admitted, the stored counter is N once all have returned (read while
\* the counter has not expired).
C2_AsStated ==
    \A k \in UsedKeys :
        /\ RanSideBySide(k)
        /\ \A r \in SameKey(k) : Admitted(r)
        /\ k \notin expired
        => RedisGet(store, k) = Cardinality(SameKey(k))

\* C2, amended: when all the calls made for one window key have returned
\* after their INCR/EXPIRE batch succeeded, the stored counter is their number
\* (read while the counter has not expired): no increment is lost.
C2_NoLostUpdate ==
    \A k \in UsedKeys :
        /\ \A r \in SameKey(k) : Done(r) /\ req[r].counted
        /\ k \notin expired
        => RedisGet(store, k) = Cardinality(SameKey(k))

C2_Witness ==
    \E k \in UsedKeys :
        /\ RanSideBySide(k)
        /\ \A r \in SameKey(k) : req[r].counted
        /\ k \notin expired
        /\ RedisGet(store, k) = Cardinality(SameKey(k))

----------------------------------------------------------------------------
(* C3 *)

\* C3: a call with a GnzContext made when the connection has ended for good
\* (every store command of the call fails) is admitted: the handler runs and
\* the caller gets the handler's result or exception, never a store error.
C3_FailOpenWhenUnreachable ==
    \A r \in Reqs : Valid(r) /\ req[r].late /\ Done(r) => HandlerOutcome(r)

----------------------------------------------------------------------------
(* C4 *)

\* the refresh rate was given and is 0 or negative
RefreshRateTooSmall == "refreshRate" \in DOMAIN dict /\ dict.refreshRate < 1

\* C4: with a refresh rate of 0 or less every call with a GnzContext ends
\* with BadRequest, and no store command is issued for it.
C4_InvalidRefreshRateRejected ==
    \A r \in Reqs :
        Valid(r) /\ RefreshRateTooSmall =>
            /\ req[r].issued = 0
            /\ Done(r) /\ req[r].outcome = "BadRequest"

----------------------------------------------------------------------------
(* C5 *)

\* C5: BadRequest and RequestTimeout are the only errors of the limiter that
\* reach the caller; a call whose GET or whose INCR/EXPIRE batch failed is
\* admitted to the handler.
C5_OnlyBadRequestAndTimeoutEscape ==
    \A r \in Reqs :
        Done(r) =>
            /\ req[r].outcome \in {"BadRequest", "RequestTimeout"} \cup HandlerResults
            /\ req[r].failed # "" => HandlerOutcome(r)

----------------------------------------------------------------------------
(* C6 *)

\* the calls counted so far for the source IP, the handler and the minute
\* of r
CountedForScope(r) ==
    {p \in ValidReqs :
        /\ req[p].counted
        /\ req[p].args = req[r].args /\ req[p].name = req[r].name
        /\ getMinutes(req[p].date) = getMinutes(req[r].date)}

\* the calls counted so far for the source IP and the minute of r, whatever
\* the handler
CountedForIp(r) ==
    {p \in ValidReqs :
        /\ req[p].counted
        /\ req[p].args = req[r].args
        /\ getMinutes(req[p].date) = getMinutes(req[r].date)}

\* the counter and the expiry stored under the key k, if any
Entry(s, k) == IF k \in DOMAIN s THEN <<s[k].count, s[k].exp>> ELSE << >>

\* the count a call has read holds no increment made for another handler
ReadsOwnScope ==
    \A r \in ValidReqs :
        req[r].oldCount # Null =>
            req[r].oldCount <= Cardinality(CountedForScope(r))

\* the step in which the call r is counted leaves the counter and the expiry
\* of every call p made to another handler as they were
OtherScopeUntouched ==
    \A r, p \in ValidReqs :
        /\ ~req[r].counted /\ req'[r].counted
        /\ req[p].args = req[r].args /\ req[p].name # req[r].name
        => Entry(store', KeyOf(p)) = Entry(store, KeyOf(p))

\* C6 as stated: handlers with different names have different counters: an
\* admitted call for one never changes the counter or the expiry of the
\* other, and the count a call reads, and is rejected on, never holds an
\* increment made for another handler.
C6_AsStated == []ReadsOwnScope /\ [][OtherScopeUntouched]_vars

\* C6, amended: in part_000, whose key holds the handler's name, an admitted
\* call for one handler never changes the counter or the expiry of another,
\* and the count a call reads holds only increments made for its own handler;
\* in index.ts, whose key is sourceIp:minute, the handlers of one source IP
\* share a counter, and the count holds the increments made for any of them.
C6_ScopesIndependent ==
    /\ [](IF variant = "scoped"
          THEN ReadsOwnScope
          ELSE \A r \in ValidReqs :
                    req[r].oldCount # Null =>
                        req[r].oldCount <= Cardinality(CountedForIp(r)))
    /\ [][variant = "scoped" => OtherScopeUntouched]_vars

C6_Witness ==
    \E r, p \in ValidReqs :
        /\ variant = "scoped"
        /\ req[r].args = req[p].args /\ req[r].name # req[p].name
        /\ getMinutes(req[r].date) = getMinutes(req[p].date)
        /\ req[p].counted /\ LimitReached(RedisGet(store, KeyOf(p)), dict)
        /\ req[r].getKey # "" /\ req[r].oldCount = Null
        /\ req[r].counted /\ RedisGet(store, KeyOf(r)) = 1
        /\ HandlerOutcome(r)

----------------------------------------------------------------------------
(* C7 *)

\* C7: once the connection has failed more than five times the client is
\* disconnected for good, no reconnect follows and the failure count is not
\* reset; and a rate-limit check that is waiting for the store once the
\* connection has ended comes to an end.
C7_BudgetExhausted ==
    /\ [][retryCount > MaxRetries =>
            /\ status = "end" /\ status' = "end"
            /\ retryCount' = retryCount]_vars
    /\ \A r \in Reqs :
            (status = "end" /\ ~crashed /\ InFlight(r)) ~> Done(r)

C7_Witness ==
    \E r \in Reqs :
        /\ retryCount > MaxRetries /\ status = "end"
        /\ req[r].late /\ Done(r)

----------------------------------------------------------------------------
(* C8 *)

\* C8: the handler runs at most once per call; when it runs, it gets the
\* arguments of the call and the caller gets its result or exception; when
\* it does not run, the caller gets an error of the limiter; and a call whose
\* GET returned a count at or over the limit ends with RequestTimeout without
\* the handler running.
C8_HandlerOnceOrNever ==
    \A r \in Reqs :
        /\ Len(req[r].invoked) <= 1
        /\ Admitted(r) => Done(r) /\ HandlerOutcome(r)
        /\ Done(r) /\ ~Admitted(r) =>
                req[r].outcome \in {"BadRequest", "RequestTimeout", "StoreError"}
        /\ req[r].outcome = "RequestTimeout" => ~Admitted(r)
        /\ LimitReached(req[r].oldCount, dict) =>
                Done(r) /\ req[r].outcome = "RequestTimeout"

C8_Witness ==
    \E r, p \in Reqs :
        /\ LimitReached(req[r].oldCount, dict)
        /\ req[r].outcome = "RequestTimeout" /\ req[r].invoked = << >>
        /\ req[p].counted /\ HandlerOutcome(p) /\ req[p].outcome = "threw"

----------------------------------------------------------------------------
(* C9 *)

\* C9: a call reads, increments and expires one key, the key of the minute
\* taken at its start, also when the minute has changed before its
\* INCR/EXPIRE batch runs: no counter holds an increment of a call made for
\* another key.
C9_OneKeyPerCall ==
    /\ \A r \in ValidReqs :
            /\ req[r].getKey # "" => req[r].getKey = KeyOf(r)
            /\ req[r].execKey # "" => req[r].execKey = req[r].getKey
    /\ \A k \in DOMAIN store :
            store[k].count <=
                Cardinality({r \in ValidReqs : req[r].counted /\ KeyOf(r) = k})

C9_Witness ==
    \E r \in ValidReqs :
        LET k == KeyOf(r)
            adjacent == WindowKey(variant, req[r].args[1].sourceIp, req[r].name, now)
        IN  /\ req[r].counted /\ req[r].execKey = k
            /\ SameKey(k) = {r}
            /\ k \in DOMAIN store /\ store[k].count = 1
            /\ CalendarMinute(LastIncrement(k)) # CalendarMinute(req[r].date)
            /\ adjacent # k /\ adjacent \notin DOMAIN store

----------------------------------------------------------------------------
(* C10 *)

----------------------------------------------------------------------------
(* C11 *)

\* the minute of the hour of a time in seconds
MinuteOfHour(date) == CalendarMinute(date) % MinutesPerHour
\* two calls by one source IP to one handler
SameIdentity(r, p) ==
    req[r].args[1].sourceIp = req[p].args[1].sourceIp /\ req[r].name = req[p].name

\* C11 as stated: two calls by one source IP to one handler have the same
\* window key when they start in the same calendar minute, and different
\* window keys when they start in different calendar minutes, minutes that
\* are hours apart included.
C11_AsStated ==
    \A r \in ValidReqs, p \in ValidReqs :
        SameIdentity(r, p) =>
            (KeyOf(r) = KeyOf(p) <=>
                CalendarMinute(req[r].date) = CalendarMinute(req[p].date))

\* C11, amended: two calls by one source IP to one handler have the same
\* window key when they start in the same calendar minute; they have the
\* same window key exactly when they start in the same minute of the hour,
\* so the keys differ between minutes of one hour and are the same for
\* calendar minutes a whole number of hours apart.
C11_KeyByMinuteOfHour ==
    \A r \in ValidReqs, p \in ValidReqs :
        SameIdentity(r, p) =>
            /\ CalendarMinute(req[r].date) = CalendarMinute(req[p].date)
                    => KeyOf(r) = KeyOf(p)
            /\ KeyOf(r) = KeyOf(p)
                    <=> MinuteOfHour(req[r].date) = MinuteOfHour(req[p].date)

\* the GETs of two calls of one identity that started in different calendar
\* minutes have named the same key
C11_Witness ==
    \E r \in ValidReqs, p \in ValidReqs :
        /\ SameIdentity(r, p)
        /\ CalendarMinute(req[r].date) # CalendarMinute(req[p].date)
        /\ req[r].getKey # "" /\ req[r].getKey = req[p].getKey

----------------------------------------------------------------------------
(* C12 *)

\* C12: when new Redis(...) throws while the decorator factory runs, the
\* factory does not throw, and every call made afterwards with a GnzContext
\* runs the handler once and ends with the handler's result.
C12_ConstructionDoesNotThrow ==
    /\ status # "thrown"
    /\ status = "undefined" => \A r \in ValidReqs : HandlerOutcome(r)

----------------------------------------------------------------------------
(* C13 *)

\* C13: INCR and EXPIRE are one step of the store: in every state, every
\* counter in the store has a time to live, which lies in the future and is
\* at most the configured window away.
C13_EveryCounterExpires ==
    \A k \in DOMAIN store :
        /\ store[k].count >= 1
        /\ store[k].exp # Null
        /\ store[k].exp > now
        /\ store[k].exp <= now + ExpireSeconds(variant, dict)

\* a call in flight has read a counter that another call had written
C13_Witness ==
    \E r \in ValidReqs :
        /\ req[r].pc = "multi"
        /\ KeyOf(r) \in DOMAIN store
        /\ req[r].oldCount = store[KeyOf(r)].count
        /\ \E p \in SameKey(KeyOf(r)) : p # r /\ req[p].counted

----------------------------------------------------------------------------
(* C14 *)

\* the count of the counter k of the store s, 0 when it is not there
CountIn(s, k) == IF k \in DOMAIN s THEN s[k].count ELSE 0

\* the step in which the call r is counted adds one to its counter and sets
\* the counter's expiry to the full window from now, and runs the handler
CountedStepResetsTtl ==
    \A r \in Reqs :
        (~req[r].counted /\ req'[r].counted) =>
            LET k == req'[r].execKey
            IN  /\ k \in DOMAIN store'
                /\ store'[k].count = CountIn(store, k) + 1
                /\ store'[k].exp = now + ExpireSeconds(variant, dict)
                /\ req'[r].invoked # << >>

\* in part_000 a call is admitted only in the step in which it is counted
AdmittedStepCounts ==
    \A r \in Reqs :
        (variant = "scoped" /\ req[r].invoked = << >> /\ req'[r].invoked # << >>)
            => (~req[r].counted /\ req'[r].counted)

\* a step in which no call is counted and no time passes (a call, a GET's
\* reply, a rejection, a failure, a change of the connection) leaves every
\* counter and every expiry as it was
OtherStepsKeepStore ==
    (now' = now /\ \A r \in Reqs : req'[r].counted = req[r].counted)
        => store' = store

----------------------------------------------------------------------------
(* C15 *)

\* a call that was admitted after its store commands succeeded has been
\* counted, and its counter, as long as it has never expired, holds one for
\* every call counted under its key, whatever their handlers did
CountedBeforeInvoked ==
    \A r \in ValidReqs :
        (Admitted(r) /\ req[r].failed = "") =>
            /\ req[r].counted
            /\ req[r].execKey \notin expired =>
                    CountIn(store, req[r].execKey) =
                        Cardinality({p \in ValidReqs :
                            req[p].counted /\ req[p].execKey = req[r].execKey})

\* while no time passes no counter goes away and no count goes down
NeverRolledBack ==
    now' = now =>
        \A k \in DOMAIN store :
            k \in DOMAIN store' /\ store'[k].count >= store[k].count

\* C15: a call admitted after its store commands succeeded was counted
\* before its handler ran, and the count stays when the handler throws: it
\* is never taken back.
C15_ChargeOnAttempt == []CountedBeforeInvoked /\ [][NeverRolledBack]_vars

\* a call whose handler threw is still counted, after time has passed and
\* after another call has finished
C15_Witness ==
    \E r \in ValidReqs, p \in ValidReqs :
        /\ req[r].counted /\ req[r].outcome = "threw"
        /\ req[r].execKey \in DOMAIN store
        /\ req[r].execKey \notin expired
        /\ p # r /\ Done(p) /\ req[p].counted /\ req[p].execKey = req[r].execKey
        /\ store[req[r].execKey].count = 2
        /\ now > req[r].date

----------------------------------------------------------------------------
(* C16 *)

\* C16: a call made with a GnzContext after the connection has ended for
\* good hands no command to the client and runs the handler at once, ending
\* with the handler's result.
C16_NoStoreCallOnceFailed ==
    \A r \in ValidReqs :
        req[r].late => (Done(r) /\ req[r].issued = 0 /\ HandlerOutcome(r))

----------------------------------------------------------------------------
(* C17 *)

\* two calls that the decorator counts together when made in one minute:
\* one source IP and, in part_000, one handler
SameScope(r, p) ==
    /\ req[r].args[1].sourceIp = req[p].args[1].sourceIp
    /\ variant = "scoped" => req[r].name = req[p].name

\* the calls counted together with r that started in the calendar minute m
\* and were admitted
AdmittedInMinute(r, m) ==
    {p \in ValidReqs :
        SameScope(r, p) /\ CalendarMinute(req[p].date) = m /\ Admitted(p)}

\* the store has worked for every call and the refresh rate is valid
StoreWorked ==
    /\ ~RefreshRateInvalid(variant, dict)
    /\ \A p \in Reqs : req[p].failed = ""

\* what C17 says of the calls counted together with r, made in turn in the
\* calendar minute of r and the one after it
TwoMinuteBound(r) ==
    LET m == CalendarMinute(req[r].date)
    IN  /\ Cardinality(AdmittedInMinute(r, m)) <= Limit
        /\ Cardinality(AdmittedInMinute(r, m + 1)) <= Limit
        /\ Cardinality(AdmittedInMinute(r, m) \cup AdmittedInMinute(r, m + 1))
                <= 2 * Limit
        \* the first call of a minute finds no count, whatever came before
        /\ (Done(r) /\ \A p \in ValidReqs :
                (p < r /\ SameScope(r, p))
                    => CalendarMinute(req[p].date) < m)
            => Admitted(r)

----------------------------------------------------------------------------
(* C18 *)

\* C18: with the GETs and MULTIs of overlapping calls for one window key in
\* any order, no counter in the store ever exceeds the limit.
C18_CounterNeverExceedsLimit ==
    \A k \in DOMAIN store : store[k].count <= Limit

----------------------------------------------------------------------------
(* C19 *)

\* the calls counted together with r that started in the calendar minute
\* of r and have been counted
CountedInOwnMinute(r) ==
    {p \in ValidReqs :
        /\ p # r /\ req[p].counted /\ SameScope(r, p)
        /\ CalendarMinute(req[p].date) = CalendarMinute(req[r].date)}

\* C19: the count that a call's GET returns, on which the call is admitted
\* or rejected, holds nothing of calls that started in another calendar
\* minute, the same minute of another hour included: it is at most the
\* number of calls counted in the call's own calendar minute.
C19_OtherMinutesDoNotCount ==
    \A r \in ValidReqs :
        req[r].oldCount # Null =>
            req[r].oldCount <= Cardinality(CountedInOwnMinute(r))

----------------------------------------------------------------------------
(* C20 *)

\* the call ended with an error of the limiter
Rejected(q) == q.pc = "done" /\ q.outcome \in {"RequestTimeout", "BadRequest"}

\* a rejected call was never counted and never handed a MULTI to the client
RejectedNeverCounted ==
    \A r \in Reqs :
        Rejected(req[r]) =>
            (~req[r].counted /\ req[r].execKey = "" /\ req[r].issued <= 1)

\* the step that rejects a call leaves every counter and expiry as it was
RejectionKeepsStore ==
    \A r \in Reqs :
        (~Rejected(req[r]) /\ Rejected(req'[r])) => store' = store

\* C20: a call rejected by the limiter (limit reached, invalid refreshRate,
\* no GnzContext) leaves the store as it was: no counter is created or
\* incremented and no expiry is set or extended.
C20_RejectionLeavesStore ==
    []RejectedNeverCounted /\ [][RejectionKeepsStore]_vars

\* a call that came after the last increment of its counter was rejected for
\* the limit, and the counter still holds the limit and its old expiry
C20_Witness ==
    \E r \in ValidReqs :
        /\ Rejected(req[r]) /\ req[r].outcome = "RequestTimeout"
        /\ req[r].getKey \in DOMAIN store
        /\ store[req[r].getKey].count = Limit
        /\ LastIncrement(req[r].getKey) < req[r].date

====
